---- MODULE Spec2Model ----
(***************************************************************************)
(* Model of HiveRPCEngineClient (simulators/ethereum/engine, hive_rpc):    *)
(* the per-account nonce tracker, the Engine-API call methods with their   *)
(* "latest sent / latest received" fields, and the authentication token    *)
(* attached to the engine connection.                                      *)
(***************************************************************************)
EXTENDS Integers, Sequences, FiniteSets, TLC

\* ------------------------------------------------------------------ bounds
NumBlocks == 4      \* block hashes 1..NumBlocks; block b has parent b \div 2
MaxNonce == 2       \* account nonces range over 0..MaxNonce
MaxVersion == 3     \* Engine-API versions passed to the versioned dispatchers
MaxTime == 1        \* issue times (iat) of tokens

\* ------------------------------------------------------------------ values
Accounts == {"acc1", "acc2"}
Blocks == 1..NumBlocks
Nonces == 0..MaxNonce

\* The chain known to the client under test is a tree of blocks: block 1 is
\* the genesis, the children of block b are 2b and 2b+1.  ParentOf(1) = 0 is
\* the zero hash.
ParentOf(b) == b \div 2

RECURSIVE Height(_)
Height(b) == IF b <= 1 THEN 0 ELSE 1 + Height(ParentOf(b))

VARIABLES
    accTxInfoMap,                 \* ec.accTxInfoMap: account -> AccountTransactionInfo
    accTxInfoMapLock,             \* ec.accTxInfoMapLock: "free" or the holder
    latestFcUStateSent,           \* ec.latestFcUStateSent
    latestPAttrSent,              \* ec.latestPAttrSent
    latestFcUResponse,            \* ec.latestFcUResponse
    latestPayloadSent,            \* ec.latestPayloadSent
    latestPayloadStatusReponse,   \* ec.latestPayloadStatusReponse
    authHeader,                   \* the Authorization header set on ec.c
    wire,                         \* the last request dispatched on ec.c
    last,                         \* the last completed call: inputs and outputs
    hist,                         \* the last call of each Engine-API family
    heap,                         \* AccountTransactionInfo objects (concurrent spec)
    procs,                        \* goroutines (concurrent spec)
    genesis,                      \* the *core.Genesis being configured
    live                          \* the CheckEthEngineLive call in progress

vars == <<accTxInfoMap, accTxInfoMapLock, latestFcUStateSent, latestPAttrSent,
          latestFcUResponse, latestPayloadSent, latestPayloadStatusReponse,
          authHeader, wire, last, hist, heap, procs, genesis, live>>

\* The genesis under configuration and the liveness probe: no method of the
\* client's call surface touches them.
configVars == <<genesis, live>>

engineVars == <<latestFcUStateSent, latestPAttrSent, latestFcUResponse,
                latestPayloadSent, latestPayloadStatusReponse, authHeader,
                wire, hist, configVars>>

concVars == <<accTxInfoMapLock, heap, procs>>

\* No genesis is being configured, no liveness probe is running.
NoGenesis == [configured |-> FALSE]
NotProbing == [pc |-> "idle"]

\* --------------------------------------------------------- nonce tracker
\* An account with no entry in the map.
NoInfo == [known |-> FALSE]

\* &AccountTransactionInfo{PreviousBlock: b, PreviousNonce: n}
AccountTransactionInfo(b, n) ==
    [known |-> TRUE, PreviousBlock |-> b, PreviousNonce |-> n]

\* A head fetch that returned an error, and one that panicked.
FailedHead == [ok |-> FALSE, panicked |-> FALSE]
PanickedHead == [ok |-> FALSE, panicked |-> TRUE]

\* HeaderByNumber(ctx, nil).  raw is the reply to the raw eth_getBlockByNumber
\* POST of getBlockHash, typed the reply to ec.Client.BlockByNumber: the hash
\* comes from the raw fetch, every other header field from the typed fetch;
\* either failure fails the call.  A raw fetch fails with an error (failed
\* POST, undecodable body) or with the panic of getBlockHash's type
\* assertions (a response with no result or no hash).
HeaderByNumber(raw, typed) ==
    IF ~raw.ok
    THEN IF raw.panic THEN PanickedHead ELSE FailedHead
    ELSE IF ~typed.ok
    THEN FailedHead
    ELSE [ok |-> TRUE,
          hash |-> raw.block,
          parentHash |-> ParentOf(typed.block),
          number |-> Height(typed.block)]

\* What the two fetches of one HeaderByNumber call can see: the same head, or
\* a head that moved by one block (to a child, or back to the parent) between
\* the raw and the typed fetch; or a failure of either.
FetchPairs ==
    {<<[ok |-> FALSE, panic |-> p], [ok |-> FALSE]>> : p \in BOOLEAN} \cup
    {<<[ok |-> TRUE, block |-> r], [ok |-> TRUE, block |-> t]>> :
        <<r, t>> \in {p \in Blocks \X Blocks :
                        \/ p[1] = p[2]
                        \/ ParentOf(p[1]) = p[2]
                        \/ ParentOf(p[2]) = p[1]}}

\* The headers a HeaderByNumber(ctx, nil) call can return.
Heads == {HeaderByNumber(p[1], p[2]) : p \in FetchPairs}

\* What a call whose head fetch failed gives its caller: the error of
\* HeaderByNumber, or no return at all when the fetch panicked.
HeadErr(head) == IF head.panicked THEN "panic" ELSE "transport"

\* Mutant: the validity test without the parent clause.
IsUpToDate_HeadOnly(info, head) ==
    /\ info.known
    /\ info.PreviousBlock = head.hash

\* Mutant: the validity test tolerating two blocks of staleness.
IsUpToDate_TwoDeep(info, head) ==
    /\ info.known
    /\ \/ info.PreviousBlock = head.hash
       \/ info.PreviousBlock = head.parentHash
       \/ info.PreviousBlock = ParentOf(head.parentHash)

\* The validity test of GetLastAccountNonce and GetNextAccountNonce:
\* ok && accTxInfo != nil && (PreviousBlock == head.Hash() ||
\*                            PreviousBlock == head.ParentHash)
IsUpToDate(info, head) ==
    /\ info.known
    /\ \/ info.PreviousBlock = head.hash
       \/ info.PreviousBlock = head.parentHash

\* Mutant: the advance that returns the cached nonce once more.
AdvanceInfo_NoIncrement(info, head) ==
    AccountTransactionInfo(head.hash, info.PreviousNonce)

\* Mutant: the advance that records the head's parent as the cached block.
AdvanceInfo_ParentBlock(info, head) ==
    AccountTransactionInfo(head.parentHash, info.PreviousNonce + 1)

\* Mutant: the advance that leaves the cached block where it was.
AdvanceInfo_KeepBlock(info, head) ==
    AccountTransactionInfo(info.PreviousBlock, info.PreviousNonce + 1)

\* The in-place advance of the hit path of GetNextAccountNonce.
AdvanceInfo(info, head) ==
    AccountTransactionInfo(head.hash, info.PreviousNonce + 1)

\* Mutant: a miss evicts the account's entry and stores none.
QueriedInfo_Evict(head, nonce) == NoInfo

\* The entry GetNextAccountNonce inserts after the network nonce query.
QueriedInfo(head, nonce) == AccountTransactionInfo(head.hash, nonce)

\* Mutant: UpdateNonce recording the head's parent as the block.
UpdatedInfo_ParentBlock(head, newNonce) ==
    AccountTransactionInfo(head.parentHash, newNonce)

\* The entry UpdateNonce inserts.
UpdatedInfo(head, newNonce) == AccountTransactionInfo(head.hash, newNonce)

\* Mutant: a GetLastAccountNonce that refreshes the cached block on a hit.
GetLastAccountNonce_Refresh(account) ==
    \E head \in Heads :
        LET info == accTxInfoMap[account]
        IN  /\ last' = [op |-> "GetLastAccountNonce", account |-> account,
                        head |-> head, queried |-> FALSE, cached |-> info,
                        ret |-> IF head.ok /\ IsUpToDate(info, head)
                                THEN info.PreviousNonce ELSE 0,
                        err |-> IF ~head.ok THEN HeadErr(head)
                                ELSE IF IsUpToDate(info, head) THEN "nil"
                                ELSE "no previous nonce"]
            /\ accTxInfoMap' =
                    IF head.ok /\ IsUpToDate(info, head)
                    THEN [accTxInfoMap EXCEPT ![account].PreviousBlock = head.hash]
                    ELSE accTxInfoMap
            /\ UNCHANGED engineVars
            /\ UNCHANGED concVars

GetLastAccountNonce(account) ==
    \E head \in Heads :
        LET info == accTxInfoMap[account]
        IN  /\ last' = [op |-> "GetLastAccountNonce", account |-> account,
                        head |-> head, queried |-> FALSE, cached |-> info,
                        ret |-> IF head.ok /\ IsUpToDate(info, head)
                                THEN info.PreviousNonce ELSE 0,
                        err |-> IF ~head.ok THEN HeadErr(head)
                                ELSE IF IsUpToDate(info, head) THEN "nil"
                                ELSE "no previous nonce"]
            /\ UNCHANGED accTxInfoMap
            /\ UNCHANGED engineVars
            /\ UNCHANGED concVars

\* nonceReply is the outcome of ec.NonceAt(ctx, account, head.Number).
GetNextAccountNonce(account) ==
    \E head \in Heads :
        LET info == accTxInfoMap[account]
        IN  IF ~head.ok
            THEN /\ last' = [op |-> "GetNextAccountNonce", account |-> account,
                             head |-> head, queried |-> FALSE, cached |-> info,
                             ret |-> 0, err |-> HeadErr(head)]
                 /\ UNCHANGED accTxInfoMap
                 /\ UNCHANGED engineVars
                 /\ UNCHANGED concVars
            ELSE IF IsUpToDate(info, head)
            THEN /\ info.PreviousNonce < MaxNonce
                 /\ accTxInfoMap' =
                        [accTxInfoMap EXCEPT ![account] = AdvanceInfo(info, head)]
                 /\ last' = [op |-> "GetNextAccountNonce", account |-> account,
                             head |-> head, queried |-> FALSE, cached |-> info,
                             ret |-> AdvanceInfo(info, head).PreviousNonce,
                             err |-> "nil"]
                 /\ UNCHANGED engineVars
                 /\ UNCHANGED concVars
            ELSE \E nonceReply \in {[ok |-> FALSE]} \cup
                                   {[ok |-> TRUE, nonce |-> n] : n \in Nonces} :
                 IF ~nonceReply.ok
                 THEN /\ last' = [op |-> "GetNextAccountNonce",
                                  account |-> account, head |-> head,
                                  queried |-> TRUE, cached |-> info,
                                  queriedAt |-> head.number,
                                  reply |-> nonceReply, ret |-> 0,
                                  err |-> "transport"]
                      /\ UNCHANGED accTxInfoMap
                      /\ UNCHANGED engineVars
                      /\ UNCHANGED concVars
                 ELSE /\ accTxInfoMap' =
                            [accTxInfoMap EXCEPT
                                ![account] = QueriedInfo(head, nonceReply.nonce)]
                      /\ last' = [op |-> "GetNextAccountNonce",
                                  account |-> account, head |-> head,
                                  queried |-> TRUE, cached |-> info,
                                  queriedAt |-> head.number,
                                  reply |-> nonceReply,
                                  ret |-> nonceReply.nonce, err |-> "nil"]
                      /\ UNCHANGED engineVars
                      /\ UNCHANGED concVars

UpdateNonce(account, newNonce) ==
    \E head \in Heads :
        LET info == accTxInfoMap[account]
        IN  IF ~head.ok
            THEN /\ last' = [op |-> "UpdateNonce", account |-> account,
                             head |-> head, queried |-> FALSE, cached |-> info,
                             newNonce |-> newNonce, err |-> HeadErr(head)]
                 /\ UNCHANGED accTxInfoMap
                 /\ UNCHANGED engineVars
                 /\ UNCHANGED concVars
            ELSE /\ accTxInfoMap' =
                        [accTxInfoMap EXCEPT
                            ![account] = UpdatedInfo(head, newNonce)]
                 /\ last' = [op |-> "UpdateNonce", account |-> account,
                             head |-> head, queried |-> FALSE, cached |-> info,
                             newNonce |-> newNonce, err |-> "nil"]
                 /\ UNCHANGED engineVars
                 /\ UNCHANGED concVars

\* NewHiveRPCEngineClient: an empty nonce map, every "latest" field nil, no
\* Authorization header on the engine connection.
Init ==
    /\ accTxInfoMap = [a \in Accounts |-> NoInfo]
    /\ accTxInfoMapLock = "free"
    /\ latestFcUStateSent = "nil"
    /\ latestPAttrSent = "nil"
    /\ latestFcUResponse = "nil"
    /\ latestPayloadSent = [type |-> "nil", body |-> "nil"]
    /\ latestPayloadStatusReponse = "nil"
    /\ authHeader = [set |-> FALSE]
    /\ wire = [sent |-> FALSE]
    /\ last = [op |-> "none"]
    /\ hist = [fcu |-> [op |-> "none"]]
    /\ heap = <<>>
    /\ procs = <<>>
    /\ genesis = NoGenesis
    /\ live = NotProbing

\* The single test harness driving the nonce tracker, one call at a time.
Next ==
    \/ \E account \in Accounts : GetLastAccountNonce(account)
    \/ \E account \in Accounts : GetNextAccountNonce(account)
    \/ \E account \in Accounts, newNonce \in Nonces : UpdateNonce(account, newNonce)

Spec == Init /\ [][Next]_vars

\* ------------------------------------------------------------ Engine API
Versions == 1..MaxVersion
Times == 1..MaxTime

FcStates == {"fcs1", "fcs2"}          \* *api.ForkchoiceStateV1 arguments
PAttrs == {"nil", "attr1"}            \* *typ.PayloadAttributes arguments
Payloads == {"p1", "p2"}              \* payload bodies
HashLists == {"nil", "hashes1"}       \* *[]common.Hash arguments
BeaconRoots == {"nil", "root1"}       \* *common.Hash arguments

\* The outcome of ec.c.CallContext: an error (the result keeps its zero
\* value), or a decoded result.
RpcReplies(results) == {[ok |-> FALSE]} \cup {[ok |-> TRUE, result |-> r] : r \in results}

\* What CallContext leaves in a result that started as the zero value.
Decoded(reply) == IF reply.ok THEN reply.result ELSE "zero"

\* The error CallContext returns.
CallErr(reply) == IF reply.ok THEN "nil" ELSE "rpc"

\* GetNewToken: the HS256 token over the "iat" claim, or the signing error.
GetNewToken(jwtSecretBytes, iat, signOk) ==
    IF signOk
    THEN [err |-> "nil", token |-> [alg |-> "HS256", key |-> jwtSecretBytes, iat |-> iat]]
    ELSE [err |-> "sign", token |-> ""]

\* PrepareAuthCallToken: on success sets the Authorization header of ec.c.
PrepareAuthCallToken(header, jwtSecretBytes, iat, signOk) ==
    LET t == GetNewToken(jwtSecretBytes, iat, signOk)
    IN  IF t.err # "nil"
        THEN [err |-> t.err, header |-> header]
        ELSE [err |-> "nil", header |-> [set |-> TRUE, bearer |-> t.token]]

\* Mutant: PrepareDefaultAuthCallToken propagating the signing error.
PrepareDefaultAuthCallToken_Propagate(header, iat, signOk) ==
    PrepareAuthCallToken(header, "JWTSecretBytes", iat, signOk)

\* PrepareDefaultAuthCallToken: calls PrepareAuthCallToken with the client's
\* secret and time.Now(), drops its error and returns nil.
PrepareDefaultAuthCallToken(header, iat, signOk) ==
    [err |-> "nil",
     header |-> PrepareAuthCallToken(header, "JWTSecretBytes", iat, signOk).header]

\* The request CallContext sends on ec.c.
Request(method, version, params, header) ==
    [sent |-> TRUE, method |-> method, version |-> version,
     params |-> params, auth |-> header]

\* The record of a call that returned the token error before dispatch.
Aborted(op, err) ==
    [op |-> op, mintFailed |-> TRUE, dispatched |-> FALSE, err |-> err]

\* The record of a call that was dispatched.
Dispatched(op, signOk, reply, ret) ==
    [op |-> op, mintFailed |-> ~signOk, dispatched |-> TRUE,
     err |-> CallErr(reply), ret |-> ret]

nonceVars == <<accTxInfoMap, accTxInfoMapLock, heap, procs, configVars>>
fcuVars == <<latestFcUStateSent, latestPAttrSent, latestFcUResponse>>
npVars == <<latestPayloadSent, latestPayloadStatusReponse>>

\* Mutant: ForkchoiceUpdated recording the response only when the call succeeded.
FcUResponseRecorded_OnSuccess(reply, previous) ==
    IF reply.ok THEN Decoded(reply) ELSE previous

\* ec.latestFcUResponse = &result, after the call, whatever its error.
FcUResponseRecorded(reply, previous) == Decoded(reply)

ForkchoiceUpdated(version, fcState, pAttributes) ==
    \E iat \in Times, signOk \in BOOLEAN, reply \in RpcReplies({"VALID"}) :
        LET auth == PrepareDefaultAuthCallToken(authHeader, iat, signOk)
        IN  IF auth.err # "nil"
            THEN /\ last' = Aborted("ForkchoiceUpdated", auth.err)
                 /\ authHeader' = auth.header
                 /\ hist' = [hist EXCEPT !.fcu = [op |-> "ForkchoiceUpdated",
                                                  fcState |-> fcState,
                                                  pAttributes |-> pAttributes,
                                                  ret |-> "zero",
                                                  err |-> auth.err]]
                 /\ UNCHANGED <<fcuVars, npVars, wire, nonceVars>>
            ELSE /\ authHeader' = auth.header
                 /\ latestFcUStateSent' = fcState
                 /\ latestPAttrSent' = pAttributes
                 /\ wire' = Request("engine_forkchoiceUpdatedV", version,
                                    <<fcState, pAttributes>>, auth.header)
                 /\ latestFcUResponse' = FcUResponseRecorded(reply, latestFcUResponse)
                 /\ last' = Dispatched("ForkchoiceUpdated", signOk, reply, Decoded(reply))
                 /\ hist' = [hist EXCEPT !.fcu = [op |-> "ForkchoiceUpdated",
                                                  fcState |-> fcState,
                                                  pAttributes |-> pAttributes,
                                                  ret |-> Decoded(reply),
                                                  err |-> CallErr(reply)]]
                 /\ UNCHANGED <<npVars, nonceVars>>

\* Mutant: the wire arguments of NewPayload without the nil optionals.
NewPayloadParams_DropNil(version, payload, versionedHashes, beaconRoot) ==
    IF version >= 3
    THEN <<payload>>
         \o (IF versionedHashes = "nil" THEN <<>> ELSE <<versionedHashes>>)
         \o (IF beaconRoot = "nil" THEN <<>> ELSE <<beaconRoot>>)
    ELSE <<payload>>

\* The wire arguments NewPayload passes to CallContext after the method name.
NewPayloadParams(version, payload, versionedHashes, beaconRoot) ==
    IF version >= 3
    THEN <<payload, versionedHashes, beaconRoot>>
    ELSE <<payload>>

\* The body of NewPayload (the versioned dispatcher), called directly or from
\* NewPayloadV1/V2/V3; op names the entry point.
NewPayloadBody(op, version, payload, versionedHashes, beaconRoot) ==
    \E iat \in Times, signOk \in BOOLEAN, reply \in RpcReplies({"VALID"}) :
        LET auth == PrepareDefaultAuthCallToken(authHeader, iat, signOk)
        IN  IF auth.err # "nil"
            THEN /\ last' = [op |-> op, mintFailed |-> TRUE, dispatched |-> FALSE,
                             err |-> auth.err, payload |-> payload]
                 /\ authHeader' = auth.header
                 /\ UNCHANGED <<latestPayloadStatusReponse, wire, hist>>
            ELSE /\ authHeader' = auth.header
                 /\ wire' = Request("engine_newPayloadV", version,
                                    NewPayloadParams(version, payload,
                                                     versionedHashes, beaconRoot),
                                    auth.header)
                 /\ latestPayloadStatusReponse' = Decoded(reply)
                 /\ last' = [op |-> op, mintFailed |-> ~signOk,
                             dispatched |-> TRUE, err |-> CallErr(reply),
                             ret |-> Decoded(reply), payload |-> payload]
                 /\ UNCHANGED hist

\* NewPayload(ctx, version, payload, versionedHashes, beaconRoot) called by
\* the harness: payload is an interface{} holding either payload type.
NewPayload(version, payload, versionedHashes, beaconRoot) ==
    /\ NewPayloadBody("NewPayload", version, payload, versionedHashes, beaconRoot)
    /\ UNCHANGED <<latestPayloadSent, fcuVars, nonceVars>>

\* payload.ToExecutableData(): the V1 payload as a typ.ExecutableData.
ToExecutableData(payload) == [type |-> "ExecutableData", body |-> payload.body]

NewPayloadV1(payload) ==
    /\ latestPayloadSent' = ToExecutableData(payload)
    /\ NewPayloadBody("NewPayloadV1", 1, payload, "nil", "nil")
    /\ UNCHANGED <<fcuVars, nonceVars>>

NewPayloadV2(payload) ==
    /\ latestPayloadSent' = payload
    /\ NewPayloadBody("NewPayloadV2", 2, payload, "nil", "nil")
    /\ UNCHANGED <<fcuVars, nonceVars>>

NewPayloadV3(payload, versionedHashes, beaconRoot) ==
    /\ latestPayloadSent' = payload
    /\ NewPayloadBody("NewPayloadV3", 3, payload, versionedHashes, beaconRoot)
    /\ UNCHANGED <<fcuVars, nonceVars>>

\* *typ.ExecutableDataV1 and *typ.ExecutableData arguments.
ExecutableDataV1s == {[type |-> "ExecutableDataV1", body |-> b] : b \in Payloads}
ExecutableDatas == {[type |-> "ExecutableData", body |-> b] : b \in Payloads}

\* The payloads the harness passes to the dispatcher for a version.
PayloadsFor(version) == IF version = 1 THEN ExecutableDataV1s ELSE ExecutableDatas

\* An authenticated call with no "latest" field: GetPayloadBodiesByRangeV1,
\* GetPayloadBodiesByHashV1, GetBlobsBundleV1, ExchangeCapabilities.
AuthCall(op, method, params) ==
    \E iat \in Times, signOk \in BOOLEAN, reply \in RpcReplies({"result"}) :
        LET auth == PrepareDefaultAuthCallToken(authHeader, iat, signOk)
        IN  IF auth.err # "nil"
            THEN /\ last' = Aborted(op, auth.err)
                 /\ authHeader' = auth.header
                 /\ UNCHANGED <<fcuVars, npVars, wire, hist, nonceVars>>
            ELSE /\ authHeader' = auth.header
                 /\ wire' = Request(method, 1, params, auth.header)
                 /\ last' = Dispatched(op, signOk, reply,
                                       IF reply.ok THEN reply.result ELSE "nil")
                 /\ UNCHANGED <<fcuVars, npVars, hist, nonceVars>>

GetPayloadBodiesByRangeV1 ==
    AuthCall("GetPayloadBodiesByRangeV1", "engine_getPayloadBodiesByRangeV",
             <<"start", "count">>)

GetPayloadBodiesByHashV1 ==
    AuthCall("GetPayloadBodiesByHashV1", "engine_getPayloadBodiesByHashV",
             <<"hashes">>)

GetBlobsBundleV1 ==
    AuthCall("GetBlobsBundleV1", "engine_getBlobsBundleV", <<"payloadId">>)

ExchangeCapabilities ==
    AuthCall("ExchangeCapabilities", "engine_exchangeCapabilities",
             <<"clCapabilities">>)

\* The responses to engine_getPayloadV{n}: for version >= 2 an envelope, for
\* version 1 the payload itself.
Envelopes ==
    {[ExecutionPayload |-> "p1", BlockValue |-> "value1",
      BlobsBundle |-> "bundle1", ShouldOverrideBuilder |-> "false"],
     [ExecutionPayload |-> "p1", BlockValue |-> "value1",
      BlobsBundle |-> "nil", ShouldOverrideBuilder |-> "nil"],
     [ExecutionPayload |-> "nil", BlockValue |-> "nil",
      BlobsBundle |-> "nil", ShouldOverrideBuilder |-> "nil"]}

\* The zero typ.ExecutionPayloadEnvelope.
ZeroEnvelope ==
    [ExecutionPayload |-> "nil", BlockValue |-> "nil",
     BlobsBundle |-> "nil", ShouldOverrideBuilder |-> "nil"]

\* What CallContext leaves in a typ.ExecutionPayloadEnvelope that started as
\* the zero value.
DecodedEnvelope(reply) == IF reply.ok THEN reply.result ELSE ZeroEnvelope

\* Mutant: the envelope decoded from version 3 on only.
GetPayloadResult_EnvelopeFrom3(version, reply) ==
    IF version >= 3
    THEN LET response == DecodedEnvelope(reply)
         IN  [executableData |->
                  IF response.ExecutionPayload # "nil"
                  THEN response.ExecutionPayload ELSE "zero",
              blockValue |-> response.BlockValue,
              blobsBundle |-> response.BlobsBundle,
              shouldOverrideBuilder |-> response.ShouldOverrideBuilder]
    ELSE [executableData |-> IF version >= 2 THEN "zero" ELSE Decoded(reply),
          blockValue |-> "nil",
          blobsBundle |-> "nil",
          shouldOverrideBuilder |-> "nil"]

\* The four values GetPayload returns beside err (lines 565-578).
GetPayloadResult(version, reply) ==
    IF version >= 2
    THEN LET response == DecodedEnvelope(reply)
         IN  [executableData |->
                  IF response.ExecutionPayload # "nil"
                  THEN response.ExecutionPayload ELSE "zero",
              blockValue |-> response.BlockValue,
              blobsBundle |-> response.BlobsBundle,
              shouldOverrideBuilder |-> response.ShouldOverrideBuilder]
    ELSE [executableData |-> Decoded(reply),
          blockValue |-> "nil",
          blobsBundle |-> "nil",
          shouldOverrideBuilder |-> "nil"]

GetPayload(version) ==
    \E iat \in Times, signOk \in BOOLEAN,
       reply \in RpcReplies(IF version >= 2 THEN Envelopes ELSE {"p1"}) :
        LET auth == PrepareDefaultAuthCallToken(authHeader, iat, signOk)
        IN  IF auth.err # "nil"
            THEN /\ last' = Aborted("GetPayload", auth.err)
                 /\ authHeader' = auth.header
                 /\ UNCHANGED <<fcuVars, npVars, wire, hist, nonceVars>>
            ELSE /\ authHeader' = auth.header
                 /\ wire' = Request("engine_getPayloadV", version,
                                    <<"payloadId">>, auth.header)
                 /\ last' = [op |-> "GetPayload", mintFailed |-> ~signOk,
                             dispatched |-> TRUE, err |-> CallErr(reply),
                             ret |-> GetPayloadResult(version, reply),
                             response |-> reply]
                 /\ UNCHANGED <<fcuVars, npVars, hist, nonceVars>>

\* ExchangeTransitionConfigurationV1: dispatched on ec.c with no token step.
ExchangeTransitionConfigurationV1 ==
    \E reply \in RpcReplies({"tConf"}) :
        /\ wire' = Request("engine_exchangeTransitionConfigurationV", 1,
                           <<"tConf">>, authHeader)
        /\ last' = [op |-> "ExchangeTransitionConfigurationV1",
                    mintFailed |-> FALSE, dispatched |-> TRUE,
                    err |-> CallErr(reply), ret |-> Decoded(reply)]
        /\ UNCHANGED <<authHeader, fcuVars, npVars, hist, nonceVars>>

\* The harness driving the Engine-API methods, one call at a time.
EngineNext ==
    \/ \E version \in Versions, fcState \in FcStates, pAttributes \in PAttrs :
          ForkchoiceUpdated(version, fcState, pAttributes)
    \/ \E version \in Versions :
          \E payload \in PayloadsFor(version),
             versionedHashes \in HashLists, beaconRoot \in BeaconRoots :
             NewPayload(version, payload, versionedHashes, beaconRoot)
    \/ \E payload \in ExecutableDataV1s : NewPayloadV1(payload)
    \/ \E payload \in ExecutableDatas : NewPayloadV2(payload)
    \/ \E payload \in ExecutableDatas, versionedHashes \in HashLists,
          beaconRoot \in BeaconRoots :
          NewPayloadV3(payload, versionedHashes, beaconRoot)
    \/ \E version \in Versions : GetPayload(version)
    \/ GetPayloadBodiesByRangeV1
    \/ GetPayloadBodiesByHashV1
    \/ GetBlobsBundleV1
    \/ ExchangeCapabilities
    \/ ExchangeTransitionConfigurationV1

EngineSpec == Init /\ [][EngineNext]_vars

\* ------------------------------------------- concurrent nonce tracker
\* Goroutines calling GetNextAccountNonce and UpdateNonce on one client, each
\* statement that reads or writes shared memory a step of its own.  Here
\* accTxInfoMap holds pointers: 0 is "no entry", i > 0 the object heap[i].
Procs == {"g1", "g2"}
Refs == 1..(Cardinality(Accounts) + Cardinality(Procs))

\* The goroutines all work on one account, the case a race needs, while the
\* head is the genesis block or its first child, or its fetch returns an
\* error.
RacedAccounts == {"acc1"}
RacedHeads ==
    {h \in Heads : IF h.ok THEN h.hash <= 2 /\ h.parentHash = ParentOf(h.hash)
                   ELSE ~h.panicked}

\* An unused heap cell.
Free == [known |-> FALSE]

\* The object a pointer refers to; NoInfo for the nil pointer.
Deref(ref) == IF ref = 0 THEN NoInfo ELSE heap[ref]

\* Cells referenced by the map or by a goroutine's local pointer.
Referenced == {accTxInfoMap[a] : a \in Accounts} \cup {procs[g].ptr : g \in Procs}

\* &AccountTransactionInfo{...}: a cell the garbage collector has reclaimed.
NewRef == CHOOSE i \in Refs : i \notin Referenced /\ \A j \in Refs : j < i => j \in Referenced

\* A goroutine between calls.
Idle ==
    [pc |-> "idle", op |-> "none", account |-> "none", head |-> FailedHead,
     ptr |-> 0, n |-> 0, ret |-> 0, err |-> "nil", hit |-> FALSE]

Running == last.op # "fatal"

\* Whether another goroutine is inside the map assignment.
OtherInserting(g) == \E o \in Procs \ {g} : procs[o].pc = "inserting"

\* The Go runtime's "concurrent map read and map write" / "concurrent map
\* writes" fatal error, raised when an access finds the map being written.
Fatal(g) ==
    /\ Running
    /\ procs[g].pc \in {"check", "insert"}
    /\ OtherInserting(g)
    /\ last' = [op |-> "fatal"]
    /\ UNCHANGED <<accTxInfoMap, accTxInfoMapLock, heap, procs, engineVars>>

\* The call and its head fetch (lines 705-710, 737-742).
Start(g, op, account, newNonce) ==
    /\ Running
    /\ procs[g].pc = "idle"
    /\ \E head \in RacedHeads :
          procs' = [procs EXCEPT ![g] =
              [@ EXCEPT !.op = op, !.account = account, !.head = head,
                        !.n = newNonce,
                        !.err = IF head.ok THEN "nil" ELSE "transport",
                        !.pc = IF ~head.ok THEN "done"
                               ELSE IF op = "UpdateNonce" THEN "insert"
                               ELSE "check"]]
    /\ UNCHANGED <<accTxInfoMap, accTxInfoMapLock, heap, last, engineVars>>

\* Mutant: the validity test taken under the lock, held until the return.
NextCheck_Locked(g) ==
    /\ Running
    /\ procs[g].pc = "check"
    /\ accTxInfoMapLock = "free"
    /\ LET ref == accTxInfoMap[procs[g].account]
       IN  IF IsUpToDate(Deref(ref), procs[g].head)
           THEN /\ procs' = [procs EXCEPT ![g] =
                        [@ EXCEPT !.pc = "hit_block", !.ptr = ref, !.hit = TRUE]]
                /\ accTxInfoMapLock' = g
           ELSE /\ procs' = [procs EXCEPT ![g] = [@ EXCEPT !.pc = "query"]]
                /\ UNCHANGED accTxInfoMapLock
    /\ UNCHANGED <<accTxInfoMap, heap, last, engineVars>>

\* Line 712 of GetNextAccountNonce, taking no lock.
NextCheck(g) ==
    /\ Running
    /\ procs[g].pc = "check"
    /\ LET ref == accTxInfoMap[procs[g].account]
       IN  procs' = [procs EXCEPT ![g] =
               IF IsUpToDate(Deref(ref), procs[g].head)
               THEN [@ EXCEPT !.pc = "hit_block", !.ptr = ref, !.hit = TRUE]
               ELSE [@ EXCEPT !.pc = "query"]]
    /\ UNCHANGED <<accTxInfoMap, accTxInfoMapLock, heap, last, engineVars>>

\* Line 715: accTxInfo.PreviousBlock = head.Hash()
NextSetBlock(g) ==
    /\ Running
    /\ procs[g].pc = "hit_block"
    /\ heap' = [heap EXCEPT ![procs[g].ptr].PreviousBlock = procs[g].head.hash]
    /\ procs' = [procs EXCEPT ![g].pc = "hit_load"]
    /\ UNCHANGED <<accTxInfoMap, accTxInfoMapLock, last, engineVars>>

\* Line 716, the read of accTxInfo.PreviousNonce++
NextLoad(g) ==
    /\ Running
    /\ procs[g].pc = "hit_load"
    /\ procs' = [procs EXCEPT ![g].n = heap[procs[g].ptr].PreviousNonce,
                              ![g].pc = "hit_store"]
    /\ UNCHANGED <<accTxInfoMap, accTxInfoMapLock, heap, last, engineVars>>

\* Line 716, the write of accTxInfo.PreviousNonce++
NextStore(g) ==
    /\ Running
    /\ procs[g].pc = "hit_store"
    /\ procs[g].n < MaxNonce
    /\ heap' = [heap EXCEPT ![procs[g].ptr].PreviousNonce = procs[g].n + 1]
    /\ procs' = [procs EXCEPT ![g].pc = "hit_ret"]
    /\ UNCHANGED <<accTxInfoMap, accTxInfoMapLock, last, engineVars>>

\* Line 717: return accTxInfo.PreviousNonce, the value just computed or the
\* field read again.
NextReturnHit(g) ==
    /\ Running
    /\ procs[g].pc = "hit_ret"
    /\ \E r \in {procs[g].n + 1, heap[procs[g].ptr].PreviousNonce} :
          procs' = [procs EXCEPT ![g].ret = r, ![g].pc = "done", ![g].ptr = 0,
                                 ![g].n = 0]
    /\ UNCHANGED <<accTxInfoMap, accTxInfoMapLock, heap, last, engineVars>>

\* Lines 720-725: ec.NonceAt(ctx, account, head.Number)
NextQuery(g) ==
    /\ Running
    /\ procs[g].pc = "query"
    /\ \/ procs' = [procs EXCEPT ![g].err = "transport", ![g].pc = "done"]
       \/ \E nonce \in Nonces :
             procs' = [procs EXCEPT ![g].n = nonce, ![g].pc = "lock"]
    /\ UNCHANGED <<accTxInfoMap, accTxInfoMapLock, heap, last, engineVars>>

\* Line 726: ec.accTxInfoMapLock.Lock()
NextLock(g) ==
    /\ Running
    /\ procs[g].pc = "lock"
    /\ accTxInfoMapLock = "free"
    /\ accTxInfoMapLock' = g
    /\ procs' = [procs EXCEPT ![g].pc = "insert"]
    /\ UNCHANGED <<accTxInfoMap, heap, last, engineVars>>

\* Lines 728 and 743: the map assignment begins.
InsertBegin(g) ==
    /\ Running
    /\ procs[g].pc = "insert"
    /\ procs' = [procs EXCEPT ![g].pc = "inserting"]
    /\ UNCHANGED <<accTxInfoMap, accTxInfoMapLock, heap, last, engineVars>>

\* Lines 728-731 and 743-746: the map assignment completes; UpdateNonce
\* returns, GetNextAccountNonce goes on to its return.
InsertEnd(g) ==
    /\ Running
    /\ procs[g].pc = "inserting"
    /\ LET info == IF procs[g].op = "UpdateNonce"
                   THEN UpdatedInfo(procs[g].head, procs[g].n)
                   ELSE QueriedInfo(procs[g].head, procs[g].n)
           ref == NewRef
           dropped == accTxInfoMap[procs[g].account]
           kept == {accTxInfoMap[a] : a \in Accounts \ {procs[g].account}}
                   \cup {procs[o].ptr : o \in Procs}
       IN  /\ accTxInfoMap' = [accTxInfoMap EXCEPT ![procs[g].account] = ref]
           /\ heap' = [i \in Refs |->
                          IF i = ref THEN info
                          ELSE IF i = dropped /\ i \notin kept THEN Free
                          ELSE heap[i]]
    /\ procs' = [procs EXCEPT ![g].pc = IF procs[g].op = "UpdateNonce"
                                        THEN "done" ELSE "unlock"]
    /\ UNCHANGED <<accTxInfoMapLock, last, engineVars>>

\* Lines 727 and 732: return nonce, with the deferred Unlock.
NextReturnMiss(g) ==
    /\ Running
    /\ procs[g].pc = "unlock"
    /\ accTxInfoMapLock' = "free"
    /\ procs' = [procs EXCEPT ![g].ret = procs[g].n, ![g].pc = "done", ![g].n = 0]
    /\ UNCHANGED <<accTxInfoMap, heap, last, engineVars>>

\* The caller takes the result; the goroutine is ready for its next call.
Return(g) ==
    /\ Running
    /\ procs[g].pc = "done"
    /\ procs' = [procs EXCEPT ![g] = Idle]
    /\ heap' = [i \in Refs |->
                   IF i \in {accTxInfoMap[a] : a \in Accounts}
                            \cup {procs[o].ptr : o \in Procs \ {g}}
                   THEN heap[i] ELSE Free]
    /\ UNCHANGED <<accTxInfoMap, accTxInfoMapLock, last, engineVars>>

ConcInit ==
    /\ accTxInfoMap = [a \in Accounts |-> 0]
    /\ accTxInfoMapLock = "free"
    /\ latestFcUStateSent = "nil"
    /\ latestPAttrSent = "nil"
    /\ latestFcUResponse = "nil"
    /\ latestPayloadSent = [type |-> "nil", body |-> "nil"]
    /\ latestPayloadStatusReponse = "nil"
    /\ authHeader = [set |-> FALSE]
    /\ wire = [sent |-> FALSE]
    /\ last = [op |-> "none"]
    /\ hist = [fcu |-> [op |-> "none"]]
    /\ heap = [i \in Refs |-> Free]
    /\ procs = [g \in Procs |-> Idle]
    /\ genesis = NoGenesis
    /\ live = NotProbing

ConcNext ==
    \E g \in Procs :
        \/ \E account \in RacedAccounts : Start(g, "GetNextAccountNonce", account, 0)
        \/ \E account \in RacedAccounts, newNonce \in Nonces :
              Start(g, "UpdateNonce", account, newNonce)
        \/ NextCheck(g)
        \/ NextSetBlock(g)
        \/ NextLoad(g)
        \/ NextStore(g)
        \/ NextReturnHit(g)
        \/ NextQuery(g)
        \/ NextLock(g)
        \/ InsertBegin(g)
        \/ InsertEnd(g)
        \/ NextReturnMiss(g)
        \/ Return(g)
        \/ Fatal(g)

ConcSpec == ConcInit /\ [][ConcNext]_vars


\* ------------------------------------------------- batched eth calls
\* The longest batch a call is given.
MaxBatch == 3

Slots == {"k1", "k2"}
StorageValues == {"v1", "v2"}
Lengths == 0..MaxBatch

\* An rpc.BatchElem after the batch: its Error and what its Result holds.
ZeroElem == [Error |-> "nil", Result |-> "zero"]
ElemOutcomes(results) ==
    {[Error |-> "revert", Result |-> "zero"]}
        \cup {[Error |-> "nil", Result |-> r] : r \in results}

\* The outcome of cEth.BatchCallContext on n requests: the transport error
\* (every element keeps its zero Result and nil Error), or one outcome per
\* element.
BatchCallContext(n, results) ==
    {[ok |-> FALSE, elems |-> [i \in 1..n |-> ZeroElem]]}
        \cup {[ok |-> TRUE, elems |-> e] : e \in [1..n -> ElemOutcomes(results)]}

NoError == [kind |-> "nil"]
TransportError == [kind |-> "transport"]
NilResults == [nil |-> TRUE, entries |-> <<>>]

\* The indices of the elements that report an error.
Failing(batch) == {i \in DOMAIN batch.elems : batch.elems[i].Error # "nil"}

\* results[key] = valueResult in request order: a key given twice keeps the
\* Result of its last request.
ResultsMap(keys, batch) ==
    [key \in {keys[i] : i \in DOMAIN keys} |->
        LET i == CHOOSE i \in DOMAIN keys :
                    /\ keys[i] = key
                    /\ \A j \in DOMAIN keys : keys[j] = key => j <= i
        IN  batch.elems[i].Result]

\* Mutant: the element errors are not inspected.
StorageAtKeysResult_Unchecked(keys, batch) ==
    IF ~batch.ok
    THEN [results |-> NilResults, err |-> TransportError]
    ELSE [results |-> [nil |-> FALSE, entries |-> ResultsMap(keys, batch)],
          err |-> NoError]

\* What StorageAtKeys returns (lines 422-431); the wrapped error names the
\* zero-based index of the first failing request.
StorageAtKeysResult(keys, batch) ==
    IF ~batch.ok
    THEN [results |-> NilResults, err |-> TransportError]
    ELSE IF Failing(batch) # {}
    THEN LET i == CHOOSE i \in Failing(batch) : \A j \in Failing(batch) : i <= j
         IN  [results |-> NilResults,
              err |-> [kind |-> "element", index |-> i - 1,
                       cause |-> batch.elems[i].Error]]
    ELSE [results |-> [nil |-> FALSE, entries |-> ResultsMap(keys, batch)],
          err |-> NoError]

StorageAtKeys ==
    \E n \in Lengths :
        \E keys \in [1..n -> Slots], batch \in BatchCallContext(n, StorageValues) :
            LET r == StorageAtKeysResult(keys, batch)
            IN  /\ last' = [op |-> "StorageAtKeys", keys |-> keys, batch |-> batch,
                            results |-> r.results, err |-> r.err]
                /\ UNCHANGED <<engineVars, wire, hist, nonceVars>>

\* What SendTransactions returns: the marshalling error of the first
\* transaction that has one (764-767), the transport error (774-776), and
\* otherwise nil (780); errs (777-779) is filled and not returned.
SendTransactionsResult(txs, batch) ==
    IF \E i \in DOMAIN txs : ~txs[i].marshals
    THEN <<"marshal">>
    ELSE IF ~batch.ok
    THEN <<"transport">>
    ELSE <<>>

SendTransactions ==
    \E n \in Lengths :
        \E txs \in [1..n -> [marshals : BOOLEAN]], batch \in BatchCallContext(n, {"hash"}) :
            /\ last' = [op |-> "SendTransactions", txs |-> txs, batch |-> batch,
                        errs |-> SendTransactionsResult(txs, batch)]
            /\ UNCHANGED <<engineVars, wire, hist, nonceVars>>

BatchNext ==
    \/ StorageAtKeys
    \/ SendTransactions

BatchSpec == Init /\ [][BatchNext]_vars


\* ------------------------------------------------- block and header resolution
\* The zero common.Hash.
ZeroHash == 0

\* What the raw POST of getBlockHash can meet: the POST fails, the body is
\* not JSON, the JSON has no "result" object (unknown block, or an error
\* response), the result has no "hash" string, or the result names a hash.
RawResponses ==
    {[kind |-> "postError"], [kind |-> "badJson"],
     [kind |-> "noResult"], [kind |-> "noHash"]}
        \cup {[kind |-> "block", hash |-> b] : b \in Blocks}

\* The replies of ec.Client.BlockByNumber / ec.Client.BlockByHash.
TypedReplies == {[ok |-> FALSE]} \cup {[ok |-> TRUE, block |-> b] : b \in Blocks}

\* getBlockHash: an error for a failed POST or an undecodable body; the two
\* type assertions of lines 315-316 have no ok form and panic on a missing
\* result or hash.
getBlockHash(response) ==
    CASE response.kind \in {"postError", "badJson"}
            -> [outcome |-> "error", blockHash |-> ZeroHash]
      [] response.kind \in {"noResult", "noHash"}
            -> [outcome |-> "panic", blockHash |-> ZeroHash]
      [] OTHER
            -> [outcome |-> "ok", blockHash |-> response.hash]

\* common.HexToHash on the string of the raw reply: the hash it spells, the
\* zero hash for a string that spells none.
HexToHash(blockHash) == IF blockHash \in Blocks THEN blockHash ELSE ZeroHash

\* The body shared by BlockByNumber, BlockByHash and HeaderByNumber: raw
\* fetch, typed fetch, then the header of the typed block under the hash of
\* the raw fetch.
Resolved(response, typed) ==
    LET raw == getBlockHash(response)
    IN  IF raw.outcome = "panic" THEN [outcome |-> "panic"]
        ELSE IF raw.outcome = "error" THEN [outcome |-> "error", err |-> "raw"]
        ELSE IF ~typed.ok THEN [outcome |-> "error", err |-> "typed"]
        ELSE [outcome |-> "ok",
              block |-> typed.block,
              header |-> [hash |-> HexToHash(raw.blockHash),
                          parentHash |-> ParentOf(typed.block),
                          number |-> Height(typed.block)]]

\* The block numbers a caller asks for; nil asks for the latest block.
Numbers == {[nil |-> TRUE]} \cup {[nil |-> FALSE, number |-> Height(b)] : b \in Blocks}

ResolveCall(op, arg) ==
    \E response \in RawResponses, typed \in TypedReplies :
        /\ last' = [op |-> op, arg |-> arg, response |-> response,
                    typed |-> typed, result |-> Resolved(response, typed)]
        /\ UNCHANGED <<engineVars, nonceVars>>

BlockByNumber == \E number \in Numbers : ResolveCall("BlockByNumber", <<number>>)

BlockByHash == \E hash \in Blocks : ResolveCall("BlockByHash", <<hash>>)

HeaderByNumberCall == \E number \in Numbers : ResolveCall("HeaderByNumber", <<number>>)

ResolveNext ==
    \/ BlockByNumber
    \/ BlockByHash
    \/ HeaderByNumberCall

ResolveSpec == Init /\ [][ResolveNext]_vars


\* ------------------------------------------------- genesis configuration
\* The largest address and the largest timestamp of the model.
MaxAddress == 4
MaxGenesisTime == 2

\* The fixture constants of package cancun, scaled to the address space of
\* the model.
BEACON_ROOTS_ADDRESS == 0
DATAHASH_START_ADDRESS == 1
DATAHASH_ADDRESS_COUNT == 2

Addresses == 0..MaxAddress
GenesisTimes == 0..MaxGenesisTime

\* A *uint64: nil is the empty sequence, a set pointer the one-element
\* sequence of the value it points to.
NilUint64 == <<>>
NewUint64 == <<0>>
Uint64Pointers == {NilUint64} \cup {<<t>> : t \in GenesisTimes}

\* The accounts of a genesis allocation.
PrefundedAccount == [Code |-> "none", Balance |-> 100, Nonce |-> 0]
BeaconRootsAccount == [Code |-> "beaconRoots", Balance |-> 0, Nonce |-> 1]
DatahashAccount == [Code |-> "datahashCode", Balance |-> 1, Nonce |-> 0]

\* common.BigToAddress: the low 160 bits, here the residue in the address
\* space of the model.
BigToAddress(n) == n % (MaxAddress + 1)

\* alloc[address] = account.
AllocSet(alloc, address, account) ==
    [a \in DOMAIN alloc \cup {address} |->
        IF a = address THEN account ELSE alloc[a]]

\* The genesis files handed to the configuration: any fork schedule and any
\* allocation of prefunded accounts.
Geneses ==
    [ShanghaiTime : Uint64Pointers,
     CancunTime : {NilUint64},
     Timestamp : GenesisTimes,
     BlobGasUsed : {NilUint64, NewUint64},
     ExcessBlobGas : {NilUint64},
     Alloc : UNION {[S -> {PrefundedAccount}] : S \in SUBSET Addresses}]

\* Lines 20-36 of ConfigGenesis: the blob gas fields of a genesis at or after
\* the fork, and the beacon roots contract.
CancunGenesis(g, forkTimestamp) ==
    LET g2 == IF g.Timestamp >= forkTimestamp
              THEN [g EXCEPT
                      !.BlobGasUsed = IF @ = NilUint64 THEN NewUint64 ELSE @,
                      !.ExcessBlobGas = IF @ = NilUint64 THEN NewUint64 ELSE @]
              ELSE g
    IN  [g2 EXCEPT !.Alloc = AllocSet(g2.Alloc, BEACON_ROOTS_ADDRESS,
                                      BeaconRootsAccount)]

\* Mutant: a Cancun time equal to the Shanghai time is rejected.
ConfiguredGenesis_StrictlyAfter(g, forkTimestamp) ==
    IF g.ShanghaiTime = NilUint64
    THEN [genesis |-> g, err |-> "cancun fork requires shanghai fork"]
    ELSE LET g1 == [g EXCEPT !.CancunTime = <<forkTimestamp>>]
         IN  IF g1.ShanghaiTime[1] >= forkTimestamp
             THEN [genesis |-> g1, err |-> "cancun fork must be after shanghai fork"]
             ELSE [genesis |-> CancunGenesis(g1, forkTimestamp), err |-> "nil"]

\* ConfigGenesis: the genesis it leaves behind and the error it returns.
ConfiguredGenesis(g, forkTimestamp) ==
    IF g.ShanghaiTime = NilUint64
    THEN [genesis |-> g, err |-> "cancun fork requires shanghai fork"]
    ELSE LET g1 == [g EXCEPT !.CancunTime = <<forkTimestamp>>]
         IN  IF g1.ShanghaiTime[1] > forkTimestamp
             THEN [genesis |-> g1, err |-> "cancun fork must be after shanghai fork"]
             ELSE [genesis |-> CancunGenesis(g1, forkTimestamp), err |-> "nil"]

\* ConfigTestAccounts panicked: the configuration is over, no call follows.
GenesisPanicked == last.op = "ConfigTestAccounts" /\ last.panicked

ConfigGenesis(forkTimestamp) ==
    /\ ~GenesisPanicked
    /\ LET r == ConfiguredGenesis(genesis, forkTimestamp)
       IN  /\ genesis' = r.genesis
           /\ last' = [op |-> "ConfigGenesis", forkTimestamp |-> forkTimestamp,
                       before |-> genesis, err |-> r.err]
    /\ UNCHANGED <<accTxInfoMap, accTxInfoMapLock, heap, procs, live,
                   fcuVars, npVars, authHeader, wire, hist>>


\* The addresses ConfigTestAccounts gives to the DATAHASH accounts.
DatahashAddresses ==
    {BigToAddress(DATAHASH_START_ADDRESS + i) : i \in 0..(DATAHASH_ADDRESS_COUNT - 1)}

\* Mutant: the loop stores the account without looking for the address.
RECURSIVE TestAccountsLoop_Overwrite(_, _)
TestAccountsLoop_Overwrite(alloc, i) ==
    IF i >= DATAHASH_ADDRESS_COUNT
    THEN [alloc |-> alloc, panicked |-> FALSE]
    ELSE TestAccountsLoop_Overwrite(
             AllocSet(alloc, BigToAddress(DATAHASH_START_ADDRESS + i),
                      DatahashAccount), i + 1)

\* The loop of lines 63-73 from index i on: it panics at the first address
\* found in the allocation, after the accounts of the earlier indices were
\* stored.
RECURSIVE TestAccountsLoop(_, _)
TestAccountsLoop(alloc, i) ==
    IF i >= DATAHASH_ADDRESS_COUNT
    THEN [alloc |-> alloc, panicked |-> FALSE]
    ELSE LET address == BigToAddress(DATAHASH_START_ADDRESS + i)
         IN  IF address \in DOMAIN alloc
             THEN [alloc |-> alloc, panicked |-> TRUE]
             ELSE TestAccountsLoop(AllocSet(alloc, address, DatahashAccount), i + 1)

ConfigTestAccounts ==
    /\ ~GenesisPanicked
    /\ LET r == TestAccountsLoop(genesis.Alloc, 0)
       IN  /\ genesis' = [genesis EXCEPT !.Alloc = r.alloc]
           /\ last' = [op |-> "ConfigTestAccounts", before |-> genesis,
                       panicked |-> r.panicked]
    /\ UNCHANGED <<accTxInfoMap, accTxInfoMapLock, heap, procs, live,
                   fcuVars, npVars, authHeader, wire, hist>>

GenesisInit ==
    /\ genesis \in Geneses
    /\ accTxInfoMap = [a \in Accounts |-> NoInfo]
    /\ accTxInfoMapLock = "free"
    /\ latestFcUStateSent = "nil"
    /\ latestPAttrSent = "nil"
    /\ latestFcUResponse = "nil"
    /\ latestPayloadSent = [type |-> "nil", body |-> "nil"]
    /\ latestPayloadStatusReponse = "nil"
    /\ authHeader = [set |-> FALSE]
    /\ wire = [sent |-> FALSE]
    /\ last = [op |-> "none"]
    /\ hist = [fcu |-> [op |-> "none"]]
    /\ heap = <<>>
    /\ procs = <<>>
    /\ live = NotProbing

\* The simulator configuring a genesis file for the Cancun tests.
GenesisNext ==
    \/ \E forkTimestamp \in GenesisTimes : ConfigGenesis(forkTimestamp)
    \/ ConfigTestAccounts

GenesisSpec == GenesisInit /\ [][GenesisNext]_vars


\* ------------------------------------------------- CheckEthEngineLive
\* context.WithTimeout(..., time.Second*5) and time.NewTicker(100 *
\* time.Millisecond), in milliseconds.
LiveTimeout == 5000
TickerPeriod == 100

\* Time is counted in ticker periods up to the deadline of ctx.
Deadline == LiveTimeout \div TickerPeriod

\* []int{globals.EthPortHTTP, globals.EnginePortHTTP}
CheckPorts == <<"EthPortHTTP", "EnginePortHTTP">>

\* ctx.Done() is closed.
CtxExpired == live.now >= Deadline

OtherVars == <<accTxInfoMap, accTxInfoMapLock, heap, procs, genesis, last,
               fcuVars, npVars, authHeader, wire, hist>>

\* A ticker period passes: a tick is put in ticker.C unless one is waiting
\* there.  Past the deadline time is no longer counted and the ticker goes
\* on ticking.
Clock ==
    /\ live.pc \in {"select", "dial"}
    /\ live' = [live EXCEPT !.now = IF @ < Deadline THEN @ + 1 ELSE @,
                            !.tick = TRUE]
    /\ UNCHANGED OtherVars

\* case <-ticker.C
SelectTick ==
    /\ live.pc = "select"
    /\ live.tick
    /\ live' = [live EXCEPT !.tick = FALSE, !.pc = "dial"]
    /\ UNCHANGED OtherVars

\* case <-ctx.Done(): return ctx.Err()
SelectDone ==
    /\ live.pc = "select"
    /\ CtxExpired
    /\ live' = [live EXCEPT !.pc = "done", !.ret = "context deadline exceeded"]
    /\ UNCHANGED OtherVars

\* Mutant: the first port that accepts ends the check.
Dial_AnyPort ==
    /\ live.pc = "dial"
    /\ \E accepted \in BOOLEAN :
        /\ accepted => ~CtxExpired
        /\ live' = IF accepted
                   THEN [live EXCEPT !.connected = Append(@, CheckPorts[live.port]),
                                     !.pc = "done", !.ret = "nil"]
                   ELSE [live EXCEPT !.pc = "select"]
    /\ UNCHANGED OtherVars

\* dialer.DialContext(ctx, "tcp", addr) returns: a connection, which ctx
\* allows only before its deadline, or an error; a connection ends the loop
\* of this port, and that of the last port returns nil.
Dial ==
    /\ live.pc = "dial"
    /\ \E accepted \in BOOLEAN :
        /\ accepted => ~CtxExpired
        /\ live' = IF ~accepted
                   THEN [live EXCEPT !.pc = "select"]
                   ELSE IF live.port < Len(CheckPorts)
                   THEN [live EXCEPT !.connected = Append(@, CheckPorts[live.port]),
                                     !.port = @ + 1, !.pc = "select"]
                   ELSE [live EXCEPT !.connected = Append(@, CheckPorts[live.port]),
                                     !.pc = "done", !.ret = "nil"]
    /\ UNCHANGED OtherVars

\* CheckEthEngineLive has been called: the context and the ticker are made
\* and the loop of the first port is at its select.
LiveInit ==
    /\ live = [pc |-> "select", port |-> 1, now |-> 0, tick |-> FALSE,
               connected |-> <<>>, ret |-> "none"]
    /\ genesis = NoGenesis
    /\ accTxInfoMap = [a \in Accounts |-> NoInfo]
    /\ accTxInfoMapLock = "free"
    /\ latestFcUStateSent = "nil"
    /\ latestPAttrSent = "nil"
    /\ latestFcUResponse = "nil"
    /\ latestPayloadSent = [type |-> "nil", body |-> "nil"]
    /\ latestPayloadStatusReponse = "nil"
    /\ authHeader = [set |-> FALSE]
    /\ wire = [sent |-> FALSE]
    /\ last = [op |-> "none"]
    /\ hist = [fcu |-> [op |-> "none"]]
    /\ heap = <<>>
    /\ procs = <<>>

LiveNext ==
    \/ Clock
    \/ SelectTick
    \/ SelectDone
    \/ Dial

\* Time passes and DialContext returns; select chooses among its ready cases
\* at random, so a case that is ready again and again is chosen in the end.
LiveSpec ==
    /\ LiveInit /\ [][LiveNext]_vars
    /\ WF_vars(Clock)
    /\ WF_vars(Dial)
    /\ SF_vars(SelectDone)

\* ------------------------------------------------- claims: nonce tracker
\* The head/parent rule as the claims state it: the cached block is the
\* current head's hash or the current head's parent hash.
CachedBlockMatches(info, head) ==
    /\ info.known
    /\ info.PreviousBlock \in {head.hash, head.parentHash}

\* The last call was a GetNextAccountNonce whose head fetch succeeded.
NextCalled == last.op = "GetNextAccountNonce" /\ last.head.ok

\* C1: GetNextAccountNonce, when the account's cached entry (B, N) has B equal
\* to the current head's hash or the head's parent hash, returns N+1, leaves
\* the entry at (currentHeadHash, N+1) and issues no network nonce query.
C1_CacheHit ==
    (NextCalled /\ CachedBlockMatches(last.cached, last.head))
    => /\ last.err = "nil"
       /\ last.ret = last.cached.PreviousNonce + 1
       /\ accTxInfoMap[last.account] =
              AccountTransactionInfo(last.head.hash, last.cached.PreviousNonce + 1)
       /\ ~last.queried

\* A hit through the parent clause: the cached block is the head's parent and
\* not the head itself.
C1_Witness ==
    /\ NextCalled
    /\ last.cached.known
    /\ last.cached.PreviousBlock = last.head.parentHash
    /\ last.cached.PreviousBlock # last.head.hash
    /\ last.ret = 2
    /\ ~last.queried

\* C2: GetNextAccountNonce, when the account has no entry or its cached block
\* is neither the head's hash nor the head's parent hash, queries the network
\* nonce at the current head and, when the query answers, sets the entry to
\* (currentHeadHash, queriedNonce) and returns queriedNonce itself.
C2_CacheMiss ==
    (NextCalled /\ ~CachedBlockMatches(last.cached, last.head))
    => /\ last.queried
       /\ last.queriedAt = last.head.number
       /\ last.reply.ok =>
            /\ last.err = "nil"
            /\ last.ret = last.reply.nonce
            /\ accTxInfoMap[last.account] =
                   AccountTransactionInfo(last.head.hash, last.reply.nonce)

\* A miss with the head two blocks ahead of the cached block, where the
\* queried nonce differs from the cached nonce plus one.
C2_Witness ==
    /\ NextCalled
    /\ last.cached.known
    /\ last.head.parentHash = ParentOf(last.head.hash)
    /\ last.cached.PreviousBlock = ParentOf(last.head.parentHash)
    /\ last.queried
    /\ last.err = "nil"
    /\ last.ret = last.reply.nonce
    /\ last.ret # last.cached.PreviousNonce + 1
    /\ accTxInfoMap[last.account].PreviousBlock = last.head.hash

\* C3: GetLastAccountNonce leaves the account-nonce map as it was, issues no
\* network nonce query, returns the cached nonce when the cached block is the
\* head's hash or the head's parent hash, and otherwise (no entry, or a stale
\* one) fails with the "no previous nonce" error.
C3_LastIsReadOnly ==
    [][last'.op = "GetLastAccountNonce"
       => /\ accTxInfoMap' = accTxInfoMap
          /\ ~last'.queried
          /\ last'.head.ok =>
               IF CachedBlockMatches(accTxInfoMap[last'.account], last'.head)
               THEN /\ last'.err = "nil"
                    /\ last'.ret = accTxInfoMap[last'.account].PreviousNonce
               ELSE last'.err = "no previous nonce"]_vars

\* A GetLastAccountNonce that found a stale entry and left it in the map.
C3_Witness ==
    /\ last.op = "GetLastAccountNonce"
    /\ last.head.ok
    /\ last.err = "no previous nonce"
    /\ accTxInfoMap[last.account].known
    /\ accTxInfoMap[last.account] = last.cached
    /\ last.cached.PreviousNonce > 0

\* C4: UpdateNonce(account, n) with a successful head fetch sets the entry to
\* (currentHeadHash, n) whatever the entry was; a following call with the
\* same head returns n from GetLastAccountNonce and n+1 from
\* GetNextAccountNonce.
C4_UpdateNonce ==
    [][/\ (last'.op = "UpdateNonce" /\ last'.head.ok)
          => /\ last'.err = "nil"
             /\ accTxInfoMap'[last'.account] =
                    AccountTransactionInfo(last'.head.hash, last'.newNonce)
       /\ (/\ last.op = "UpdateNonce" /\ last.head.ok
           /\ last'.account = last.account
           /\ last'.head = last.head)
          => /\ last'.op = "GetLastAccountNonce"
                => last'.err = "nil" /\ last'.ret = last.newNonce
             /\ last'.op = "GetNextAccountNonce"
                => /\ last'.err = "nil"
                   /\ last'.ret = last.newNonce + 1
                   /\ ~last'.queried]_vars

\* An UpdateNonce that overwrote a stale entry holding another nonce.
C4_Witness ==
    /\ last.op = "UpdateNonce"
    /\ last.head.ok
    /\ last.cached.known
    /\ ~CachedBlockMatches(last.cached, last.head)
    /\ last.cached.PreviousNonce # last.newNonce
    /\ accTxInfoMap[last.account] =
           AccountTransactionInfo(last.head.hash, last.newNonce)

\* The head query returned a consistent header (both fetches saw one block).
ConsistentHead(head) == head.ok /\ head.parentHash = ParentOf(head.hash)

\* C5 as stated: with a cached (headA, N), a head query returning headA's
\* direct parent makes GetNextAccountNonce return N+1 and set the entry to
\* (currentHead, N+1) without a network nonce query.
C5_ParentOfCached ==
    (/\ NextCalled /\ ConsistentHead(last.head)
     /\ last.cached.known
     /\ last.head.hash = ParentOf(last.cached.PreviousBlock))
    => /\ last.ret = last.cached.PreviousNonce + 1
       /\ ~last.queried
       /\ accTxInfoMap[last.account] =
              AccountTransactionInfo(last.head.hash, last.cached.PreviousNonce + 1)

\* C5 amended: with a cached (headA, N), a head query returning a direct child
\* of headA (a head whose parent hash is headA) makes GetNextAccountNonce
\* return N+1 and set the entry to (currentHead, N+1) without a network nonce
\* query.
C5_ChildOfCached ==
    (/\ NextCalled
     /\ last.cached.known
     /\ last.head.parentHash = last.cached.PreviousBlock)
    => /\ last.err = "nil"
       /\ last.ret = last.cached.PreviousNonce + 1
       /\ ~last.queried
       /\ accTxInfoMap[last.account] =
              AccountTransactionInfo(last.head.hash, last.cached.PreviousNonce + 1)

\* The cached block moved forward to the child on a hit.
C5_Witness ==
    /\ NextCalled /\ ConsistentHead(last.head)
    /\ last.cached.known
    /\ last.head.parentHash = last.cached.PreviousBlock
    /\ ~last.queried
    /\ accTxInfoMap[last.account].PreviousBlock = last.head.hash
    /\ accTxInfoMap[last.account].PreviousBlock # last.cached.PreviousBlock

\* --------------------------------------------------- claims: Engine API
\* LatestForkchoiceSent, LatestForkchoiceResponse, LatestNewPayloadSent and
\* LatestNewPayloadResponse return the fields.
LatestForkchoiceSent == <<latestFcUStateSent, latestPAttrSent>>
LatestForkchoiceResponse == latestFcUResponse
LatestNewPayloadSent == latestPayloadSent
LatestNewPayloadResponse == latestPayloadStatusReponse

\* C7: whatever calls were made, LatestForkchoiceSent is the state and
\* attributes of the most recent ForkchoiceUpdated call and
\* LatestForkchoiceResponse the response of that same call, the zero response
\* when it failed; before any such call both are nil.
C7_LatestForkchoice ==
    IF hist.fcu.op = "none"
    THEN LatestForkchoiceSent = <<"nil", "nil">> /\ LatestForkchoiceResponse = "nil"
    ELSE /\ LatestForkchoiceSent = <<hist.fcu.fcState, hist.fcu.pAttributes>>
         /\ LatestForkchoiceResponse = hist.fcu.ret
         /\ hist.fcu.err # "nil" => LatestForkchoiceResponse = "zero"

\* The most recent ForkchoiceUpdated call failed, another method was called
\* since, and the fields hold that failed call's arguments and zero response.
C7_Witness ==
    /\ hist.fcu.op = "ForkchoiceUpdated"
    /\ hist.fcu.err = "rpc"
    /\ last.op = "NewPayloadV2"
    /\ LatestForkchoiceSent = <<"fcs2", "attr1">>
    /\ LatestForkchoiceResponse = "zero"

NewPayloadOps == {"NewPayload", "NewPayloadV1", "NewPayloadV2", "NewPayloadV3"}

\* The supplied payload as the typ.ExecutableData the "latest sent" field holds.
SuppliedPayload(payload) == [type |-> "ExecutableData", body |-> payload.body]

\* C8: after a New payload call through any entry point, LatestNewPayloadSent
\* is the payload of that call and LatestNewPayloadResponse its status (the
\* zero status when the call failed).
C8_LatestNewPayload ==
    (last.op \in NewPayloadOps)
    => /\ LatestNewPayloadSent = SuppliedPayload(last.payload)
       /\ last.dispatched => LatestNewPayloadResponse = last.ret

AuthenticatedOps ==
    NewPayloadOps \cup
    {"ForkchoiceUpdated", "GetPayload", "ExchangeCapabilities",
     "GetPayloadBodiesByRangeV1", "GetPayloadBodiesByHashV1"}

\* C9: an authenticated Engine-API call whose token minting failed returns
\* that error and sends no request.
C9_MintFailureAborts ==
    (last.op \in AuthenticatedOps /\ last.mintFailed)
    => /\ ~last.dispatched
       /\ last.err = "sign"

\* C10 as stated: a dispatched NewPayload goes to engine_newPayloadV{version}
\* with four wire arguments when version >= 3 and one when version < 3.
C10_FourWireArguments ==
    (last.op \in NewPayloadOps /\ last.dispatched)
    => /\ wire.method = "engine_newPayloadV"
       /\ Len(wire.params) = IF wire.version >= 3 THEN 4 ELSE 1

\* C10 amended: a dispatched NewPayload goes to engine_newPayloadV{version}
\* with exactly three wire arguments when version >= 3 (the payload, the
\* versioned hashes and the beacon root, nil or not) and exactly one, the
\* payload, when version < 3.
C10_ThreeWireArguments ==
    (last.op \in NewPayloadOps /\ last.dispatched)
    => /\ wire.method = "engine_newPayloadV"
       /\ wire.params[1] = last.payload
       /\ Len(wire.params) = IF wire.version >= 3 THEN 3 ELSE 1

\* A version >= 3 call with nil versioned hashes and nil beacon root sent
\* with three arguments.
C10_Witness ==
    /\ last.op = "NewPayload"
    /\ last.dispatched
    /\ wire.version >= 3
    /\ wire.params = <<last.payload, "nil", "nil">>

\* ------------------------------------- claims: concurrent nonce tracker
\* C6: two concurrent GetNextAccountNonce calls for one account race.  The
\* mutex is held by a goroutine only from its Lock before the insert to its
\* return: never during the validity test, the advance of the hit path or the
\* network query.  The witness is the race that this allows.
C6_LockCoversOnlyInsert ==
    \A g \in Procs :
        /\ procs[g].pc \in {"check", "hit_block", "hit_load", "hit_store",
                            "hit_ret", "query", "lock"}
           => accTxInfoMapLock # g
        /\ accTxInfoMapLock = g
           => /\ procs[g].op = "GetNextAccountNonce"
              /\ procs[g].pc \in {"insert", "inserting", "unlock"}

\* Both goroutines completed a GetNextAccountNonce for the same account on
\* the hit path, and both were handed the same nonce.
C6_Witness ==
    \E g, o \in Procs :
        /\ g # o
        /\ procs[g].pc = "done" /\ procs[o].pc = "done"
        /\ procs[g].op = "GetNextAccountNonce"
        /\ procs[o].op = "GetNextAccountNonce"
        /\ procs[g].account = procs[o].account
        /\ procs[g].hit /\ procs[o].hit
        /\ procs[g].err = "nil" /\ procs[o].err = "nil"
        /\ procs[g].ret = procs[o].ret

\* The same on the miss path: both queried the network at the same head and
\* both returned the queried nonce, one insert overwriting the other.
C6_MissRace ==
    \E g, o \in Procs :
        /\ g # o
        /\ procs[g].pc = "done" /\ procs[o].pc = "done"
        /\ procs[g].op = "GetNextAccountNonce"
        /\ procs[o].op = "GetNextAccountNonce"
        /\ procs[g].account = procs[o].account
        /\ procs[g].head = procs[o].head
        /\ ~procs[g].hit /\ ~procs[o].hit
        /\ procs[g].err = "nil" /\ procs[o].err = "nil"
        /\ procs[g].ret = procs[o].ret

\* ---- C11 --------------------------------------------------------------
\* C11: GetPayload decodes by version. A dispatched call with version 1
\* returns the bare payload the reply decoded to, with block value, blobs
\* bundle and override flag nil; a dispatched call with version >= 2 returns
\* exactly the fields of the decoded envelope, the payload being the zero
\* value when the envelope carries none.
C11_GetPayloadDecoding ==
    (last.op = "GetPayload" /\ last.dispatched)
        => IF wire.version >= 2
           THEN LET envelope == IF last.response.ok THEN last.response.result
                                ELSE ZeroEnvelope
                IN  /\ last.ret.executableData =
                           (IF envelope.ExecutionPayload = "nil" THEN "zero"
                            ELSE envelope.ExecutionPayload)
                    /\ last.ret.blockValue = envelope.BlockValue
                    /\ last.ret.blobsBundle = envelope.BlobsBundle
                    /\ last.ret.shouldOverrideBuilder =
                           envelope.ShouldOverrideBuilder
           ELSE /\ last.ret.executableData =
                       (IF last.response.ok THEN last.response.result ELSE "zero")
                /\ last.ret.blockValue = "nil"
                /\ last.ret.blobsBundle = "nil"
                /\ last.ret.shouldOverrideBuilder = "nil"

\* A version-2 call returned the payload and block value of an envelope that
\* carries no blobs bundle.
C11_Witness ==
    /\ last.op = "GetPayload" /\ last.dispatched
    /\ wire.version = 2
    /\ last.response.ok
    /\ last.ret.executableData = "p1"
    /\ last.ret.blockValue = "value1"
    /\ last.ret.blobsBundle = "nil"


\* ------------------------------------------------- claims: batched calls
\* The number of different keys among the input keys.
DistinctKeys(keys) == Cardinality({keys[i] : i \in DOMAIN keys})

\* ---- C12 --------------------------------------------------------------
\* C12 (as stated): whenever the batch transport succeeds, StorageAtKeys on
\* N keys returns a mapping with exactly N entries keyed by the input keys,
\* also when an element reports an error.
C12_AlwaysNEntries ==
    (last.op = "StorageAtKeys" /\ last.batch.ok)
        => /\ ~last.results.nil
           /\ DOMAIN last.results.entries = {last.keys[i] : i \in DOMAIN last.keys}
           /\ Cardinality(DOMAIN last.results.entries) = Len(last.keys)

\* C12 (amended): when the batch transport succeeds and no element reports
\* an error, StorageAtKeys returns a mapping with one entry per different
\* input key (N entries for N different keys), each holding the value of
\* that key's request; when an element reports an error the call returns no
\* mapping and the error of the first failing request with its index.
C12_EntriesOrFirstElementError ==
    (last.op = "StorageAtKeys" /\ last.batch.ok)
        => IF \A i \in DOMAIN last.keys : last.batch.elems[i].Error = "nil"
           THEN /\ last.err = NoError
                /\ ~last.results.nil
                /\ DOMAIN last.results.entries =
                       {last.keys[i] : i \in DOMAIN last.keys}
                /\ Cardinality(DOMAIN last.results.entries) = DistinctKeys(last.keys)
                /\ \A key \in DOMAIN last.results.entries :
                       \E i \in DOMAIN last.keys :
                           /\ last.keys[i] = key
                           /\ last.results.entries[key] = last.batch.elems[i].Result
                /\ (DistinctKeys(last.keys) = Len(last.keys)
                        => \A i \in DOMAIN last.keys :
                               last.results.entries[last.keys[i]] =
                                   last.batch.elems[i].Result)
           ELSE /\ last.results.nil
                /\ last.err.kind = "element"
                /\ last.batch.elems[last.err.index + 1].Error = last.err.cause
                /\ \A i \in DOMAIN last.keys :
                       i < last.err.index + 1 => last.batch.elems[i].Error = "nil"

\* Two different keys were read, the first resolved and the second reported
\* an error: the call returned no mapping and the error of index 1.
C12_Witness ==
    /\ last.op = "StorageAtKeys" /\ last.batch.ok
    /\ Len(last.keys) = 2 /\ last.keys[1] # last.keys[2]
    /\ last.batch.elems[1].Error = "nil"
    /\ last.batch.elems[2].Error # "nil"
    /\ last.results.nil
    /\ last.err.kind = "element" /\ last.err.index = 1

\* ---- C13 --------------------------------------------------------------
\* C13: SendTransactions returns the transport failure as its error, and
\* when the transport succeeds and element i reports an error the returned
\* list carries that error at index i.
C13_ElementErrorsSurfaced ==
    (/\ last.op = "SendTransactions"
     /\ \A i \in DOMAIN last.txs : last.txs[i].marshals)
        => IF ~last.batch.ok
           THEN last.errs = <<"transport">>
           ELSE \A i \in DOMAIN last.txs :
                    last.batch.elems[i].Error # "nil"
                        => /\ i \in DOMAIN last.errs
                           /\ last.errs[i] = last.batch.elems[i].Error


\* ---- C14 --------------------------------------------------------------
\* C14: ExchangeTransitionConfigurationV1 is unauthenticated in every
\* reachable state: it mints no token and its request is dispatched without
\* an Authorization header, also after authenticated calls on the same
\* client.
C14_TransitionConfigurationUnauthenticated ==
    (last.op = "ExchangeTransitionConfigurationV1")
        => /\ ~last.mintFailed
           /\ wire.method = "engine_exchangeTransitionConfigurationV"
           /\ ~wire.auth.set


\* ------------------------------------------------- claims: block resolution
ResolveOps == {"BlockByNumber", "BlockByHash", "HeaderByNumber"}

\* ---- C15 --------------------------------------------------------------
\* C15: a block or header lookup whose raw fetch or typed fetch fails (a raw
\* response with no result or no hash field included) returns an error and
\* no block; a block or header is returned only when both fetches succeeded,
\* and its hash is the raw fetch's, never the zero value.
C15_ResolutionFailsWithError ==
    (last.op \in ResolveOps)
        => /\ (last.response.kind # "block" \/ ~last.typed.ok)
                  => last.result.outcome = "error"
           /\ last.result.outcome = "ok"
                  => /\ last.response.kind = "block" /\ last.typed.ok
                     /\ last.result.header.hash = last.response.hash
                     /\ last.result.header.hash # ZeroHash


\* ------------------------------------------------- claims: genesis
\* ---- C16 --------------------------------------------------------------
\* C16: ConfigGenesis returns an error when the Shanghai time is unset, an
\* error when the Shanghai time is greater than forkTimestamp, and otherwise
\* succeeds with the Cancun time set to forkTimestamp.
C16_ConfigGenesis ==
    (last.op = "ConfigGenesis")
        => IF last.before.ShanghaiTime = NilUint64
           THEN last.err = "cancun fork requires shanghai fork"
           ELSE IF last.before.ShanghaiTime[1] > last.forkTimestamp
           THEN last.err = "cancun fork must be after shanghai fork"
           ELSE /\ last.err = "nil"
                /\ genesis.CancunTime = <<last.forkTimestamp>>

\* ConfigGenesis succeeded with the Cancun fork at the Shanghai time itself,
\* which is after the genesis timestamp.
C16_Witness ==
    /\ last.op = "ConfigGenesis"
    /\ last.before.ShanghaiTime = <<last.forkTimestamp>>
    /\ last.forkTimestamp > genesis.Timestamp
    /\ last.err = "nil"
    /\ genesis.CancunTime = <<last.forkTimestamp>>

\* ---- C17 --------------------------------------------------------------
\* C17: ConfigTestAccounts panics when any of the DATAHASH_ADDRESS_COUNT
\* addresses from DATAHASH_START_ADDRESS on is already in the allocation, and
\* overwrites no existing account; when none is, it adds exactly
\* DATAHASH_ADDRESS_COUNT new accounts and changes no entry that was there.
C17_ConfigTestAccounts ==
    (last.op = "ConfigTestAccounts")
        => LET before == last.before.Alloc
               after == genesis.Alloc
           IN  /\ \A a \in DOMAIN before : a \in DOMAIN after /\ after[a] = before[a]
               /\ IF DatahashAddresses \cap DOMAIN before # {}
                  THEN last.panicked
                  ELSE /\ ~last.panicked
                       /\ DOMAIN after \ DOMAIN before = DatahashAddresses
                       /\ Cardinality(DOMAIN after \ DOMAIN before) =
                              DATAHASH_ADDRESS_COUNT
                       /\ \A a \in DatahashAddresses : after[a] = DatahashAccount

\* The second fixture address was taken by a prefunded account and the first
\* was not: the call panicked and the prefunded account is as it was.
C17_Witness ==
    /\ last.op = "ConfigTestAccounts"
    /\ last.panicked
    /\ DATAHASH_START_ADDRESS \notin DOMAIN last.before.Alloc
    /\ (DATAHASH_START_ADDRESS + 1) \in DOMAIN last.before.Alloc
    /\ genesis.Alloc[DATAHASH_START_ADDRESS + 1] = PrefundedAccount


\* ------------------------------------------------- claims: liveness probe
\* ---- C18 --------------------------------------------------------------
\* C18: CheckEthEngineLive always terminates.  It returns success only after
\* a connect succeeded on the eth port and then on the engine port, each
\* connect attempt taking one tick of the ticker; when the deadline passes
\* before both ports accepted it returns the deadline error, and once it has
\* returned it makes no further attempt.
C18_ProbeTerminates ==
    /\ <>(live.pc = "done")
    /\ [](live.pc = "done" <=> live.ret \in {"nil", "context deadline exceeded"})
    /\ [](live.ret = "nil" => live.connected = CheckPorts)
    /\ []((CtxExpired /\ live.connected # CheckPorts) => live.ret # "nil")
    /\ [](live.ret = "context deadline exceeded"
              => CtxExpired /\ live.connected # CheckPorts)
    /\ [][(live.pc # "dial" /\ live'.pc = "dial") => (live.tick /\ ~live'.tick)]_vars
    /\ [][live.pc = "done" => live' = live]_vars

\* The eth port accepted, the engine port did not before the deadline: the
\* call returned the deadline error.
C18_Witness ==
    /\ live.pc = "done"
    /\ live.ret = "context deadline exceeded"
    /\ live.connected = <<"EthPortHTTP">>


\* ------------------------------------------------- claims: nonce map
\* ---- C19 --------------------------------------------------------------
\* C19: over any sequence of GetLastAccountNonce, GetNextAccountNonce and
\* UpdateNonce calls no entry of the account-nonce map is ever removed, and
\* an account gets an entry only by the miss path of GetNextAccountNonce or
\* by UpdateNonce, called for that account.
C19_MapOnlyGrows ==
    [][\A a \in Accounts :
          /\ accTxInfoMap[a].known => accTxInfoMap'[a].known
          /\ (~accTxInfoMap[a].known /\ accTxInfoMap'[a].known)
                 => /\ last'.account = a
                    /\ \/ last'.op = "UpdateNonce"
                       \/ last'.op = "GetNextAccountNonce" /\ last'.queried]_vars

\* The miss path of GetNextAccountNonce gave an entry to an account that had
\* none, while the other accounts kept theirs.
C19_Witness ==
    /\ last.op = "GetNextAccountNonce"
    /\ last.queried
    /\ ~last.cached.known
    /\ \A a \in Accounts : accTxInfoMap[a].known


\* ---- C20 --------------------------------------------------------------
\* C20: every insertion into the account-nonce map is made by a goroutine
\* that holds the map's mutex, so no two goroutines are inside a map insert
\* at the same time.
C20_InsertsUnderLock ==
    /\ \A g \in Procs : procs[g].pc = "inserting" => accTxInfoMapLock = g
    /\ \A g, o \in Procs :
           (procs[g].pc = "inserting" /\ procs[o].pc = "inserting") => g = o


\* ------------------------------------------------- claims: sequential use
\* The head of the second call is the head of the first or a direct child of
\* it.
SameOrChild(first, second) ==
    /\ first.ok /\ second.ok
    /\ \/ second.hash = first.hash
       \/ second.parentHash = first.hash

\* Two consecutive successful GetNextAccountNonce calls of one account.
ConsecutiveNext ==
    /\ last.op = "GetNextAccountNonce" /\ last.err = "nil"
    /\ last'.op = "GetNextAccountNonce" /\ last'.err = "nil"
    /\ last'.account = last.account

\* ---- C21 --------------------------------------------------------------
\* C21: a single caller, one account.  A successful GetNextAccountNonce that
\* queried the network returns the queried nonce, and when the head of the
\* next call is the same head or a direct child of it, the next successful
\* GetNextAccountNonce returns exactly one more than the call before: no
\* value is repeated or skipped.
C21_SequentialIncrements ==
    [][/\ (last'.op = "GetNextAccountNonce" /\ last'.err = "nil" /\ last'.queried)
          => last'.ret = last'.reply.nonce
       /\ (ConsecutiveNext /\ SameOrChild(last.head, last'.head))
          => last'.ret = last.ret + 1]_vars

\* A call answered from the cache at a head that is a child of the cached
\* block returned one more than the nonce handed out before it.
C21_Witness ==
    /\ last.op = "GetNextAccountNonce" /\ last.err = "nil"
    /\ ~last.queried
    /\ last.cached.PreviousNonce = 1
    /\ last.cached.PreviousBlock = last.head.parentHash
    /\ last.ret = 2
    /\ accTxInfoMap[last.account] = AccountTransactionInfo(last.head.hash, 2)


\* ------------------------------------------------- claims: failing calls
NonceOps == {"GetLastAccountNonce", "GetNextAccountNonce", "UpdateNonce"}

\* The head fetch of the call failed, or its network nonce query did.
FetchFailed(call) ==
    /\ call.op \in NonceOps
    /\ \/ ~call.head.ok
       \/ call.op = "GetNextAccountNonce" /\ call.queried /\ ~call.reply.ok

\* ---- C22 --------------------------------------------------------------
\* C22: a GetNextAccountNonce, GetLastAccountNonce or UpdateNonce whose head
\* fetch fails, and a GetNextAccountNonce whose network nonce query fails,
\* returns the error and leaves every account's entry as it was before the
\* call.
C22_FailureLeavesMap ==
    [][FetchFailed(last')
          => /\ last'.err = "transport"
             /\ accTxInfoMap' = accTxInfoMap]_vars


\* ------------------------------------------------- claims: staleness window
\* ---- C23 --------------------------------------------------------------
\* C23: the staleness window slides with GetNextAccountNonce and not with
\* GetLastAccountNonce.  After a successful GetNextAccountNonce the cached
\* block is the head of that call, so the next GetNextAccountNonce at the
\* same head or a direct child of it issues no network nonce query, however
\* far the head has moved since the query.  A GetLastAccountNonce answered
\* from an entry cached at the parent of its head leaves the entry there, so
\* at a child of that head the entry is stale: GetLastAccountNonce reports
\* no previous nonce and GetNextAccountNonce queries the network.
C23_SlidingWindow ==
    [][/\ (last'.op = "GetNextAccountNonce" /\ last'.err = "nil")
          => accTxInfoMap'[last'.account].PreviousBlock = last'.head.hash
       /\ (ConsecutiveNext /\ SameOrChild(last.head, last'.head))
          => ~last'.queried
       /\ (/\ last.op = "GetLastAccountNonce" /\ last.err = "nil"
           /\ ConsistentHead(last.head)
           /\ last.cached.PreviousBlock = last.head.parentHash
           /\ last'.op \in NonceOps
           /\ last'.account = last.account
           /\ ConsistentHead(last'.head)
           /\ last'.head.parentHash = last.head.hash)
          => /\ accTxInfoMap[last.account] = last.cached
             /\ last'.op = "GetLastAccountNonce" => last'.err = "no previous nonce"
             /\ last'.op = "GetNextAccountNonce" => last'.queried]_vars

\* A GetNextAccountNonce answered from the cache two blocks above the
\* genesis block, the cached block being the block in between.
C23_Witness ==
    /\ last.op = "GetNextAccountNonce" /\ last.err = "nil"
    /\ ~last.queried
    /\ ConsistentHead(last.head)
    /\ last.head.number = 2
    /\ last.cached.PreviousBlock = last.head.parentHash
    /\ accTxInfoMap[last.account].PreviousBlock = last.head.hash


\* ---- C24 --------------------------------------------------------------
\* C24: when ConfigGenesis returns an error the genesis it was given is
\* unmodified: the Cancun time, the blob gas fields and the allocation are
\* what they were before the call.
C24_ErrorLeavesGenesis ==
    (last.op = "ConfigGenesis" /\ last.err # "nil")
        => /\ genesis.CancunTime = last.before.CancunTime
           /\ genesis.BlobGasUsed = last.before.BlobGasUsed
           /\ genesis.ExcessBlobGas = last.before.ExcessBlobGas
           /\ genesis.Alloc = last.before.Alloc

====
